---- MODULE Spec2Model ----
(***************************************************************************)
(* A model of cvxpy's XPRESS quadratic-program interface                   *)
(* (reductions/solvers/qp_solvers/xpress_qpif.py) and of the              *)
(* quad_over_lin canonicalizer                                             *)
(* (reductions/qp2quad_form/atom_canonicalizers/quad_over_lin_canon.py).  *)
(*                                                                         *)
(* Python vectors are functions over 0..n-1, Python lists built by append  *)
(* are sequences, dicts with optional keys carry the set of their keys.    *)
(***************************************************************************)
EXTENDS Integers, Sequences, FiniteSets, TLC

VARIABLES
    data,       \* the CanonicalProblemData bundle the caller holds (mutable)
    data0,      \* history: the bundle as the caller built it
    pc,         \* position of the current solve call
    verbose,    \* the verbose argument of the current call
    model,      \* the backend-native model of the current call
    calls,      \* log of the backend calls of the current call, in order
    results,    \* results_dict as returned by solve_via_data
    solution,   \* the Solution invert returned
    canon       \* the last quad_over_lin_canon call, and the variable allocator

vars == <<data, data0, pc, verbose, model, calls, results, solution, canon>>

---------------------------------------------------------------------------
(* Bounds of the model *)

MaxVar == 2     \* n_var ranges over 1..MaxVar
MaxRows == 2    \* n_eq + n_ineq ranges over 0..MaxRows

(* xp.infinity (1e20 in the backend), scaled down *)
XpInfinity == 2

(* Entries of b and g: beyond, at, and strictly inside the sentinel *)
Values == (-(XpInfinity + 1)) .. (XpInfinity + 1)

---------------------------------------------------------------------------
(* cvxpy.settings *)

OPTIMAL == "optimal"
OPTIMAL_INACCURATE == "optimal_inaccurate"
INFEASIBLE == "infeasible"
UNBOUNDED == "unbounded"
SOLVER_ERROR == "solver_error"
USER_LIMIT == "user_limit"

SOLUTION_PRESENT == {OPTIMAL, OPTIMAL_INACCURATE}

---------------------------------------------------------------------------
(* Vectors and matrices *)

Range(n) == 0 .. (n - 1)

ZeroMat(r, c) == [i \in Range(r) |-> [j \in Range(c) |-> 0]]

IdentMat(n) == [i \in Range(n) |-> [j \in Range(n) |-> IF i = j THEN 1 ELSE 0]]

OnesMat(r, c) == [i \in Range(r) |-> [j \in Range(c) |-> 1]]

BandMat(r, c) == [i \in Range(r) |-> [j \in Range(c) |-> IF j = i % c THEN 1 ELSE 0]]

(* The column indices of the nonzero entries of one row, in increasing order *)
RECURSIVE RowCols(_, _)
RowCols(row, c) ==
    IF c = 0 THEN <<>>
    ELSE IF row[c - 1] # 0 THEN Append(RowCols(row, c - 1), c - 1)
    ELSE RowCols(row, c - 1)

RowVals(row, c) == [k \in 1 .. Len(RowCols(row, c)) |-> row[RowCols(row, c)[k]]]

RECURSIVE CsrIndices(_, _, _)
CsrIndices(M, r, c) ==
    IF r = 0 THEN <<>> ELSE CsrIndices(M, r - 1, c) \o RowCols(M[r - 1], c)

RECURSIVE CsrData(_, _, _)
CsrData(M, r, c) ==
    IF r = 0 THEN <<>> ELSE CsrData(M, r - 1, c) \o RowVals(M[r - 1], c)

(* scipy's tocsr: row pointers, column indices and values of the stored entries *)
ToCsr(M, r, c) ==
    [indptr  |-> [i \in 0 .. r |-> Len(CsrIndices(M, i, c))],
     indices |-> CsrIndices(M, r, c),
     data    |-> CsrData(M, r, c)]

(* Python's seq[start:end] on a list *)
Slice(s, start, end) == SubSeq(s, start + 1, end)

count_nonzero(csr) == Cardinality({k \in DOMAIN csr.data : csr.data[k] # 0})

(* [indices[start:end].tolist(), data[start:end].tolist()] of row i *)
CsrRow(csr, i) ==
    <<Slice(csr.indices, csr.indptr[i], csr.indptr[i + 1]),
      Slice(csr.data, csr.indptr[i], csr.indptr[i + 1])>>

---------------------------------------------------------------------------
(* constrain_xpress_infty *)

ClampEntry_upper(x) == IF x >= XpInfinity THEN XpInfinity ELSE x

ClampEntry(x) ==
    LET x1 == IF x >= XpInfinity THEN XpInfinity ELSE x
    IN  IF x1 <= -XpInfinity THEN -XpInfinity ELSE x1

constrain_xpress_infty(v) == [i \in DOMAIN v |-> ClampEntry(v[i])]

---------------------------------------------------------------------------
(* The data bundles the assembler hands to the adapter *)

Bundle(n, P, nEq, b, nIneq, g, bools, ints) ==
    [P |-> P, q |-> [i \in Range(n) |-> 1],
     A |-> BandMat(nEq, n), b |-> b,
     F |-> OnesMat(nIneq, n), g |-> g,
     n_var |-> n, n_eq |-> nEq, n_ineq |-> nIneq,
     bool_idx |-> bools, int_idx |-> ints]

PMats(n) == {ZeroMat(n, n), IdentMat(n), OnesMat(n, n)}

(* Continuous problems whose right-hand sides take every value *)
BoundProblems ==
    UNION {UNION {{Bundle(MaxVar, P, nEq, b, nIneq, g, {}, {}) :
                      P \in PMats(MaxVar),
                      b \in [Range(nEq) -> Values], g \in [Range(nIneq) -> Values]} :
                  nIneq \in 0 .. (MaxRows - nEq)} :
           nEq \in 0 .. MaxRows}

(* Problems without constraints whose cost matrix and variable typing vary *)
TypeProblems ==
    UNION {{Bundle(n, P, 0, <<>>, 0, <<>>, bools, ints) :
               P \in PMats(n), bools \in SUBSET Range(n), ints \in SUBSET Range(n)} :
           n \in 1 .. MaxVar}

Problems == BoundProblems \cup TypeProblems

---------------------------------------------------------------------------
(* The backend-native model: xp.problem() and the calls made on it *)

(* Objective values the backend may report *)
ObjVals == {-1, 3}

NativeStatus ==
    {"nat_optimal", "nat_inaccurate", "nat_infeasible", "nat_unbounded",
     "nat_unfinished", "nat_stopped"}

EmptyModel ==
    [sense |-> "none", obj |-> <<>>, lb |-> <<>>, ub |-> <<>>, types |-> <<>>,
     lin |-> <<>>, has_quad |-> FALSE, quad |-> <<>>, output_hidden |-> FALSE,
     params_set |-> FALSE, nstatus |-> "nat_unfinished", objval |-> 0, bariter |-> 0]

(* model.variables.add(obj=q, lb=-xp.infinity*ones, ub=xp.infinity*ones) *)
AddVariables(m, q, n) ==
    [m EXCEPT !.obj = q,
              !.lb = [i \in Range(n) |-> -XpInfinity],
              !.ub = [i \in Range(n) |-> XpInfinity],
              !.types = [i \in Range(n) |-> "continuous"]]

SetTypes_swapped(m, bools, ints) ==
    LET t1 == [i \in DOMAIN m.types |-> IF i \in ints THEN "integer" ELSE m.types[i]]
        t2 == [i \in DOMAIN m.types |-> IF i \in bools THEN "binary" ELSE t1[i]]
    IN  [m EXCEPT !.types = t2]

(* set_types over BOOL_IDX, then set_types over INT_IDX *)
SetTypes(m, bools, ints) ==
    LET t1 == [i \in DOMAIN m.types |-> IF i \in bools THEN "binary" ELSE m.types[i]]
        t2 == [i \in DOMAIN m.types |-> IF i \in ints THEN "integer" ELSE t1[i]]
    IN  [m EXCEPT !.types = t2]

(* The rows appended for one constraint block: lin_expr, senses, rhs *)
Rows(csr, rhs, n, sense) ==
    [i \in 1 .. n |->
        [lin_expr |-> CsrRow(csr, i - 1), sense |-> sense, rhs |-> rhs[i - 1]]]

(* model.linear_constraints.add is called only for a non-empty lin_expr *)
AddConstraints(m, csr, rhs, n, sense) ==
    IF n > 0 THEN [m EXCEPT !.lin = m.lin \o Rows(csr, rhs, n, sense)] ELSE m

QuadraticAttached_always(Pcsr) == TRUE

(* if P.count_nonzero(): build qmat row by row and set_quadratic(qmat) *)
QuadraticAttached(Pcsr) == count_nonzero(Pcsr) # 0

SetQuadratic(m, Pcsr, n) ==
    IF QuadraticAttached(Pcsr)
    THEN [m EXCEPT !.has_quad = TRUE,
                   !.quad = [i \in 1 .. n |-> CsrRow(Pcsr, i - 1)]]
    ELSE m

(* The model as built by lines 80-153, from the clamped b and g *)
BuildModel(d, b, g, vb) ==
    LET Pcsr == ToCsr(d.P, d.n_var, d.n_var)
        Acsr == ToCsr(d.A, d.n_eq, d.n_var)
        Fcsr == ToCsr(d.F, d.n_ineq, d.n_var)
        m0 == [EmptyModel EXCEPT !.sense = "minimize"]
        m1 == AddVariables(m0, d.q, d.n_var)
        m2 == SetTypes(m1, d.bool_idx, d.int_idx)
        m3 == AddConstraints(m2, Acsr, b, d.n_eq, "E")
        m4 == AddConstraints(m3, Fcsr, g, d.n_ineq, "L")
        m5 == SetQuadratic(m4, Pcsr, d.n_var)
        m6 == IF ~vb THEN [m5 EXCEPT !.output_hidden = TRUE] ELSE m5
    IN  [m6 EXCEPT !.params_set = TRUE]

(* The backend calls of lines 95-159, in program order *)
TranslateCalls(d, vb) ==
    <<"xp.problem", "set_sense", "variables.add">>
    \o [k \in 1 .. (Cardinality(d.bool_idx) + Cardinality(d.int_idx)) |-> "set_types"]
    \o (IF d.n_eq > 0 THEN <<"linear_constraints.add">> ELSE <<>>)
    \o (IF d.n_ineq > 0 THEN <<"linear_constraints.add">> ELSE <<>>)
    \o (IF QuadraticAttached(ToCsr(d.P, d.n_var, d.n_var))
        THEN <<"set_quadratic">> ELSE <<>>)
    \o (IF ~vb THEN <<"hide_solver_output">> ELSE <<>>)
    \o <<"set_parameters", "get_time", "solve">>

---------------------------------------------------------------------------
(* results_dict and Solution *)

NoResults == [keys |-> {}, cputime |-> 0, status |-> "none", model |-> EmptyModel]

None == [present |-> FALSE, val |-> <<>>]

Some(v) == [present |-> TRUE, val |-> v]

Finite(v) == [kind |-> "finite", v |-> v]
PlusInf == [kind |-> "+inf", v |-> 0]
MinusInf == [kind |-> "-inf", v |-> 0]

NoSolution ==
    [returned |-> FALSE, status |-> "none", opt_val |-> PlusInf,
     primal_vars |-> None, dual_vars |-> None,
     attr |-> [keys |-> {}, solve_time |-> 0, num_iters |-> 0], is_mip |-> FALSE]

(* xpress_conif.get_status: the native status mapped to the canonical enumeration *)
get_status(m) ==
    CASE m.nstatus = "nat_optimal"    -> OPTIMAL
      [] m.nstatus = "nat_inaccurate" -> OPTIMAL_INACCURATE
      [] m.nstatus = "nat_infeasible" -> INFEASIBLE
      [] m.nstatus = "nat_unbounded"  -> UNBOUNDED
      [] m.nstatus = "nat_stopped"    -> USER_LIMIT
      [] OTHER                        -> SOLVER_ERROR

(* model.solution.get_values() and get_dual_values() of the backend *)
NativeValues(m) == [i \in DOMAIN m.types |-> i + 1]
NativeDuals(m) == [k \in Range(Len(m.lin)) |-> k + 1]

DualVars_always(m, is_mip) == Some([k \in DOMAIN NativeDuals(m) |-> -NativeDuals(m)[k]])

(* Only add duals if not a MIP: y = -get_dual_values() *)
DualVars(m, is_mip) ==
    IF ~is_mip THEN Some([k \in DOMAIN NativeDuals(m) |-> -NativeDuals(m)[k]])
    ELSE None

AbsentOptVal_plus(status) == PlusInf

(* The else branch: opt_val = np.inf, or -np.inf if status == UNBOUNDED *)
AbsentOptVal(status) == IF status = UNBOUNDED THEN MinusInf ELSE PlusInf

(* attr: SOLVE_TIME if "cputime" in results; NUM_ITERS, 0 for a MIP *)
Attr(res, is_mip, iters) ==
    [keys |-> (IF "cputime" \in res.keys THEN {"solve_time"} ELSE {}) \cup {"num_iters"},
     solve_time |-> IF "cputime" \in res.keys THEN res.cputime ELSE 0,
     num_iters |-> IF ~is_mip THEN iters ELSE 0]

invert(res, is_mip) ==
    LET m == res.model
        status == get_status(m)
        objval == m.objval
        iters == m.bariter
    IN  IF status \in SOLUTION_PRESENT
        THEN [returned |-> TRUE, status |-> status, opt_val |-> Finite(objval),
              primal_vars |-> Some(NativeValues(m)),
              dual_vars |-> DualVars(m, is_mip),
              attr |-> Attr(res, is_mip, iters), is_mip |-> is_mip]
        ELSE [returned |-> TRUE, status |-> status, opt_val |-> AbsentOptVal(status),
              primal_vars |-> None, dual_vars |-> None,
              attr |-> Attr(res, is_mip, iters), is_mip |-> is_mip]

---------------------------------------------------------------------------
(* One solve call: solve_via_data up to the backend invocation, the       *)
(* invocation's two outcomes, and invert.  The backend invocation is the   *)
(* call's only suspension point.                                           *)

CanonIdle ==
    [called |-> FALSE, outcome |-> "none", next_id |-> 0,
     new |-> {},
     arg |-> [is_variable |-> TRUE, id |-> 0, shape |-> <<>>],
     y |-> [symbolic |-> FALSE, val |-> 1],
     form |-> [x |-> [is_variable |-> TRUE, id |-> 0, shape |-> <<>>],
               P |-> <<>>],
     constraints |-> <<>>]

Init ==
    /\ data \in Problems
    /\ data0 = data
    /\ pc = "NOT_STARTED"
    /\ verbose = FALSE
    /\ model = EmptyModel
    /\ calls = <<>>
    /\ results = NoResults
    /\ solution = NoSolution
    /\ canon = CanonIdle

(* solve_via_data is entered: lines 78-88 read the bundle's fields *)
Begin ==
    /\ pc = "NOT_STARTED"
    /\ pc' = "TRANSLATING"
    /\ verbose' \in BOOLEAN
    /\ model' = EmptyModel
    /\ calls' = <<>>
    /\ results' = NoResults
    /\ solution' = NoSolution
    /\ UNCHANGED <<data, data0, canon>>

(* Lines 90-159: clamp b and g in place, build the native model, set     *)
(* verbosity and parameters, and call model.solve()                        *)
Translate ==
    /\ pc = "TRANSLATING"
    /\ LET b == constrain_xpress_infty(data.b)
           g == constrain_xpress_infty(data.g)
       IN  /\ data' = [data EXCEPT !.b = b, !.g = g]
           /\ model' = BuildModel(data, b, g, verbose)
    /\ calls' = TranslateCalls(data, verbose)
    /\ pc' = "INVOKED"
    /\ UNCHANGED <<data0, verbose, results, solution, canon>>

(* Lines 160-161, 165-167: solve returned; the time is recorded *)
SolveReturns ==
    /\ pc = "INVOKED"
    /\ \E st \in NativeStatus, ov \in ObjVals :
          /\ model' = [model EXCEPT !.nstatus = st, !.objval = ov, !.bariter = 4]
          /\ results' = [keys |-> {"cputime", "model"}, cputime |-> 1,
                         status |-> "none", model |-> model']
    /\ calls' = Append(calls, "get_time")
    /\ pc' = "SOLVED"
    /\ UNCHANGED <<data, data0, verbose, solution, canon>>

SolveRaises_retry ==
    /\ pc = "INVOKED"
    /\ pc' = "TRANSLATING"
    /\ UNCHANGED <<data, data0, verbose, model, calls, results, solution, canon>>

(* Lines 162-167: solve raised; the except clause records SOLVER_ERROR.  *)
(* What the backend left in the model is the backend's choice.             *)
SolveRaises ==
    /\ pc = "INVOKED"
    /\ \E st \in NativeStatus, ov \in ObjVals :
          /\ model' = [model EXCEPT !.nstatus = st, !.objval = ov, !.bariter = 4]
          /\ results' = [keys |-> {"status", "model"}, cputime |-> 0,
                         status |-> SOLVER_ERROR, model |-> model']
    /\ calls' = calls
    /\ pc' = "BACKEND_ERROR"
    /\ UNCHANGED <<data, data0, verbose, solution, canon>>

(* invert(results, inverse_data), lines 40-76 *)
Invert ==
    /\ pc \in {"SOLVED", "BACKEND_ERROR"}
    /\ \E is_mip \in BOOLEAN : solution' = invert(results, is_mip)
    /\ pc' = "INVERTED"
    /\ UNCHANGED <<data, data0, verbose, model, calls, results, canon>>

(* The caller reuses the same bundle for another attempt *)
NextCall ==
    /\ pc = "INVERTED"
    /\ pc' = "NOT_STARTED"
    /\ UNCHANGED <<data, data0, verbose, model, calls, results, solution, canon>>

Next ==
    \/ Begin
    \/ Translate
    \/ SolveReturns
    \/ SolveRaises
    \/ Invert
    \/ NextCall

Spec == Init /\ [][Next]_vars

---------------------------------------------------------------------------
(* quad_over_lin_canon *)

MaxDim == 2     \* each dimension of a shape ranges over 0..MaxDim
MaxY == 2       \* a numeric denominator ranges over -MaxY..MaxY
MaxAlloc == 3   \* variables the allocator hands out before the model stops

(* Shapes: (), (n,) and (m, n) *)
Shapes == {<<>>} \cup {<<m>> : m \in 0 .. MaxDim}
              \cup {<<m, n>> : m \in 0 .. MaxDim, n \in 0 .. MaxDim}

(* Expression.size: the product of the shape's dimensions *)
RECURSIVE Size(_)
Size(shape) == IF shape = <<>> THEN 1 ELSE Head(shape) * Size(Tail(shape))

(* The atom's first argument: a Variable leaf, or a compound affine expression *)
AffineExprs ==
    {[is_variable |-> v, id |-> 0, shape |-> sh] : v \in BOOLEAN, sh \in Shapes}

(* The atom's second argument: a number, or an expression without a value *)
Denominators ==
    {[symbolic |-> FALSE, val |-> v] : v \in (-MaxY) .. MaxY}
        \cup {[symbolic |-> TRUE, val |-> 1]}

(* Variable(shape): a fresh leaf with the allocator's next id *)
Variable(shape, id) == [is_variable |-> TRUE, id |-> id, shape |-> shape]

(* One stored entry a divided by y, as a fraction with a positive denominator; *)
(* a symbolic y leaves the quotient unevaluated, a zero y gives +-infinity     *)
DivEntry(a, y) ==
    IF y.symbolic THEN [num |-> a, den |-> 1, over_symbol |-> TRUE]
    ELSE IF y.val < 0 THEN [num |-> -a, den |-> -y.val, over_symbol |-> FALSE]
    ELSE [num |-> a, den |-> y.val, over_symbol |-> FALSE]

(* scipy.sparse.eye(n): the n stored diagonal entries *)
eye(n) == [n |-> n, diag |-> [i \in Range(n) |-> 1]]

(* eye(n)/y: every stored entry divided by y *)
EyeOver(n, y) == [n |-> n, diag |-> [i \in Range(n) |-> DivEntry(eye(n).diag[i], y)]]

SymbolicQuadForm(x, P) == [x |-> x, P |-> P]

quad_over_lin_canon_novar(affine_expr, y, next_id) ==
    [form |-> SymbolicQuadForm(affine_expr, EyeOver(Size(affine_expr.shape), y)),
     constraints |-> <<>>,
     new |-> {}]

quad_over_lin_canon(affine_expr, y, next_id) ==
    IF affine_expr.is_variable
    THEN [form |-> SymbolicQuadForm(affine_expr, EyeOver(Size(affine_expr.shape), y)),
          constraints |-> <<>>,
          new |-> {}]
    ELSE LET t == Variable(affine_expr.shape, next_id)
         IN  [form |-> SymbolicQuadForm(t, EyeOver(Size(affine_expr.shape), y)),
              constraints |-> <<[lhs |-> affine_expr, rhs |-> t]>>,
              new |-> {t}]

CanonInit ==
    /\ data = Bundle(1, ZeroMat(1, 1), 0, <<>>, 0, <<>>, {}, {})
    /\ data0 = data
    /\ pc = "NOT_STARTED"
    /\ verbose = FALSE
    /\ model = EmptyModel
    /\ calls = <<>>
    /\ results = NoResults
    /\ solution = NoSolution
    /\ canon = CanonIdle

(* A call that returns *)
CanonReturns ==
    /\ canon.next_id < MaxAlloc
    /\ \E a \in AffineExprs, y \in Denominators :
          LET r == quad_over_lin_canon(a, y, canon.next_id + 1)
          IN  canon' = [called |-> TRUE, outcome |-> "returned",
                        next_id |-> canon.next_id + Cardinality(r.new),
                        new |-> r.new,
                        arg |-> a, y |-> y,
                        form |-> r.form, constraints |-> r.constraints]
    /\ UNCHANGED <<data, data0, pc, verbose, model, calls, results, solution>>

(* The only failure lines 22-29 can meet is the division eye(n)/y itself   *)
(* raising: ZeroDivisionError for a Python zero, or the expression layer   *)
(* rejecting a divisor that is no constant.  No sign of y is tested.       *)
DivisionMayRaise(y) == y.symbolic \/ y.val = 0

CanonRaises ==
    /\ canon.next_id < MaxAlloc
    /\ \E a \in AffineExprs, y \in {d \in Denominators : DivisionMayRaise(d)} :
          canon' = [canon EXCEPT !.called = TRUE, !.outcome = "raised",
                                 !.new = {},
                                 !.arg = a, !.y = y,
                                 !.form = CanonIdle.form, !.constraints = <<>>]
    /\ UNCHANGED <<data, data0, pc, verbose, model, calls, results, solution>>

CanonNext ==
    \/ CanonReturns
    \/ CanonRaises

CanonSpec == CanonInit /\ [][CanonNext]_vars

---------------------------------------------------------------------------
(* Properties of the adapter *)

Built == pc \in {"INVOKED", "SOLVED", "BACKEND_ERROR", "INVERTED"}

Raised == "status" \in results.keys /\ results.status = SOLVER_ERROR

(* C1: when the backend's solve raises, invert on the returned bundle      *)
(* gives a Solution with status SOLVER_ERROR and neither primal nor dual   *)
(* data.  The statement of the claim; the code does not satisfy it.        *)
C1_RaisedSolveInvertsToSolverError ==
    (pc = "INVERTED" /\ Raised) =>
        /\ solution.returned
        /\ solution.status = SOLVER_ERROR
        /\ ~solution.primal_vars.present
        /\ ~solution.dual_vars.present

(* C2: in every Solution invert returns, the dual-variable mapping is      *)
(* present exactly when the is-integer flag is false and the status is in  *)
(* the solution-present set; for an integer problem it is always absent.   *)
C2_DualsIffContinuousAndPresent ==
    solution.returned =>
        /\ solution.dual_vars.present <=>
               (~solution.is_mip /\ solution.status \in SOLUTION_PRESENT)
        /\ solution.is_mip => ~solution.dual_vars.present

C2_Witness ==
    /\ solution.returned
    /\ solution.is_mip
    /\ solution.status = OPTIMAL
    /\ ~solution.dual_vars.present

(* C3: no partially populated Solution: with a status in the                *)
(* solution-present set the primal mapping is present and the value is the *)
(* backend's objective value; otherwise primal and dual are absent and the *)
(* value is -infinity for UNBOUNDED and +infinity for every other status.  *)
C3_NoPartialSolution ==
    solution.returned =>
        IF solution.status \in SOLUTION_PRESENT
        THEN /\ solution.primal_vars.present
             /\ solution.opt_val.kind = "finite"
             /\ solution.opt_val.v = model.objval
        ELSE /\ ~solution.primal_vars.present
             /\ ~solution.dual_vars.present
             /\ solution.status = UNBOUNDED => solution.opt_val.kind = "-inf"
             /\ solution.status # UNBOUNDED => solution.opt_val.kind = "+inf"

C3_Witness ==
    /\ solution.returned
    /\ solution.status = UNBOUNDED
    /\ solution.opt_val.kind = "-inf"

(* What the claim expects the backend to see for an entry x of b or g *)
Presented(x, shown) ==
    /\ x >= XpInfinity => shown = XpInfinity
    /\ x <= -XpInfinity => shown = -XpInfinity
    /\ (-XpInfinity < x /\ x < XpInfinity) => shown = x

(* C4: every entry of b and g at or above the sentinel reaches the backend *)
(* as +sentinel, every entry at or below -sentinel as -sentinel, every     *)
(* entry strictly between unchanged; length and order are preserved.       *)
C4_BoundsClamped ==
    Built =>
        /\ Len(model.lin) = data0.n_eq + data0.n_ineq
        /\ \A i \in Range(data0.n_eq) :
               /\ model.lin[i + 1].sense = "E"
               /\ Presented(data0.b[i], model.lin[i + 1].rhs)
        /\ \A i \in Range(data0.n_ineq) :
               /\ model.lin[data0.n_eq + i + 1].sense = "L"
               /\ Presented(data0.g[i], model.lin[data0.n_eq + i + 1].rhs)

C4_Witness ==
    /\ Built
    /\ \E i \in DOMAIN data0.b : data0.b[i] < -XpInfinity
    /\ \E i \in DOMAIN data0.g : data0.g[i] > XpInfinity

(* C5: the bundle is read-only to the adapter: after any sequence of       *)
(* solve_via_data calls every field, b and g included, is as the caller    *)
(* built it.  The statement of the claim; the code does not satisfy it.    *)
C5_BundleUnchanged == data = data0

(* C8: the native model has n_var variables; those indexed by the integer  *)
(* set are integer, those indexed by the boolean set and not the integer   *)
(* set are binary, the rest are continuous with unbounded range.           *)
C8_VariableTypes ==
    Built =>
        /\ DOMAIN model.types = Range(data.n_var)
        /\ \A i \in Range(data.n_var) :
               /\ i \in data.int_idx => model.types[i] = "integer"
               /\ (i \in data.bool_idx /\ i \notin data.int_idx) =>
                      model.types[i] = "binary"
               /\ (i \notin data.bool_idx /\ i \notin data.int_idx) =>
                      /\ model.types[i] = "continuous"
                      /\ model.lb[i] = -XpInfinity
                      /\ model.ub[i] = XpInfinity

C8_Witness ==
    /\ Built
    /\ \E i, j \in Range(data.n_var) :
          /\ i \in data.int_idx /\ i \in data.bool_idx
          /\ j \in data.bool_idx /\ j \notin data.int_idx
          /\ model.types[i] = "integer" /\ model.types[j] = "binary"

HasNonzero(P) == \E i \in DOMAIN P : \E j \in DOMAIN P[i] : P[i][j] # 0

CountCalls(name) == Cardinality({k \in DOMAIN calls : calls[k] = name})

(* C9: a quadratic objective is attached exactly when P has a nonzero      *)
(* entry; with an all-zero P no quadratic-objective call is made and the   *)
(* translation still reaches the invocation.                               *)
C9_QuadraticOnlyIfNonzero ==
    Built =>
        /\ model.has_quad <=> HasNonzero(data.P)
        /\ CountCalls("set_quadratic") = (IF HasNonzero(data.P) THEN 1 ELSE 0)
        /\ CountCalls("solve") = 1

C9_Witness ==
    /\ pc = "INVOKED"
    /\ ~HasNonzero(data.P)
    /\ ~model.has_quad
    /\ data.n_eq > 0

PcEdges ==
    {<<"NOT_STARTED", "TRANSLATING">>, <<"TRANSLATING", "INVOKED">>,
     <<"INVOKED", "SOLVED">>, <<"INVOKED", "BACKEND_ERROR">>,
     <<"SOLVED", "INVERTED">>, <<"BACKEND_ERROR", "INVERTED">>,
     <<"INVERTED", "NOT_STARTED">>}

PcStep == <<pc, pc'>> \in PcEdges

Position(name) == CHOOSE k \in DOMAIN calls : calls[k] = name

CallDiscipline ==
    /\ pc = "TRANSLATING" => CountCalls("solve") = 0
    /\ Built =>
          /\ CountCalls("solve") = 1
          /\ CountCalls("xp.problem") = 1
          /\ CountCalls("set_parameters") = 1
          /\ CountCalls("hide_solver_output") = (IF verbose THEN 0 ELSE 1)
          /\ \A k \in DOMAIN calls :
                calls[k] \in {"xp.problem", "set_sense", "variables.add", "set_types",
                              "linear_constraints.add", "set_quadratic",
                              "hide_solver_output", "set_parameters"}
                    => k < Position("solve")
          /\ model.params_set /\ model.sense = "minimize"
    /\ pc \in {"SOLVED", "BACKEND_ERROR"} =>
          /\ "model" \in results.keys
          /\ results.model = model
    /\ pc = "SOLVED" => ~Raised
    /\ pc = "BACKEND_ERROR" => Raised

(* C10: a call moves NOT_STARTED -> TRANSLATING -> INVOKED ->               *)
(* {SOLVED | BACKEND_ERROR} -> INVERTED and in no other way: solve is       *)
(* invoked once, after model construction, verbosity and options; a failed *)
(* invocation is not retried; both outcomes return a bundle holding the    *)
(* model.  (INVERTED -> NOT_STARTED is the caller's next call.)            *)
C10_CallStateMachine ==
    /\ [][PcStep]_vars
    /\ [](CallDiscipline)

C10_Witness ==
    /\ pc = "INVERTED"
    /\ Raised
    /\ "model" \in results.keys
    /\ CountCalls("solve") = 1

---------------------------------------------------------------------------
(* Properties of the canonicalizer *)

(* The coefficient is (1/y) times the identity of size n *)
IsIdentityOver(P, n, y) ==
    /\ P.n = n
    /\ DOMAIN P.diag = Range(n)
    /\ \A i \in Range(n) :
          IF y.symbolic
          THEN P.diag[i].over_symbol /\ P.diag[i].num = 1
          ELSE /\ ~P.diag[i].over_symbol
               /\ P.diag[i].num # 0
               /\ P.diag[i].den >= 0
               /\ P.diag[i].num * y.val = P.diag[i].den

(* C6: for a terminal variable the result is a SymbolicQuadForm over that  *)
(* variable with coefficient (1/y)I of size affine_expr.size, no           *)
(* constraint and no allocation; otherwise exactly one auxiliary variable  *)
(* of affine_expr's shape is allocated, the form is over it with the same  *)
(* coefficient, and exactly one equality constraint relates it to          *)
(* affine_expr.                                                            *)
C6_CanonResult ==
    (canon.called /\ canon.outcome = "returned") =>
        /\ IsIdentityOver(canon.form.P, Size(canon.arg.shape), canon.y)
        /\ IF canon.arg.is_variable
           THEN /\ canon.form.x = canon.arg
                /\ canon.constraints = <<>>
                /\ canon.new = {}
           ELSE /\ Cardinality(canon.new) = 1
                /\ \A t \in canon.new :
                      /\ t.is_variable
                      /\ t.shape = canon.arg.shape
                      /\ t.id = canon.next_id
                      /\ t # canon.arg
                      /\ canon.form.x = t
                      /\ Len(canon.constraints) = 1
                      /\ canon.constraints[1] = [lhs |-> canon.arg, rhs |-> t]

C6_Witness ==
    /\ canon.called
    /\ canon.outcome = "returned"
    /\ ~canon.arg.is_variable
    /\ canon.arg.shape = <<MaxDim, MaxDim>>
    /\ canon.y = [symbolic |-> FALSE, val |-> MaxY]
    /\ Cardinality(canon.new) = 1

(* C7: a denominator that is non-positive or symbolic makes the call fail  *)
(* at once: no replacement expression and no constraints are returned.     *)
(* The statement of the claim; the code does not satisfy it.               *)
C7_BadDenominatorFails ==
    (canon.called /\ (canon.y.symbolic \/ canon.y.val <= 0)) =>
        canon.outcome = "raised"

====
